---- MODULE Spec2Model ----
(***************************************************************************)
(* Model of the cache / invalidation layer (src/middleware/redis.js), the  *)
(* HTTP handlers that read and write through it (src/routes/user.js,       *)
(* src/routes/admin.js, src/controllers/admin.js, src/routes/performer.js) *)
(* and the real-time gateway (src/services/socket.js).                     *)
(*                                                                         *)
(* Every `await` of the source is a point where other handlers may run, so *)
(* each asynchronous function is split into one action per await.          *)
(***************************************************************************)
EXTENDS Integers, Sequences, FiniteSets, TLC

(***************************************************************************)
(* Bounds of the model.                                                    *)
(***************************************************************************)
\* committed writes to the users table in one behaviour
MaxWrites == 2
\* writes to the users table in the behaviours of the single fetchCached caller
FetchWrites == 1
\* moderation updates in the behaviours that check invalidatePattern alone
InvWrites == 1
\* send_message events of clients in one behaviour
MaxMsgs == 2
\* rejected cache-store commands (store unreachable / command error)
MaxFaults == 1
\* envelopes on the bus in the behaviours of the subscription callback
MaxEnvelopes == 3
\* calls of searchPerformers in one behaviour
MaxSearches == 2
\* join_chat events of clients in one behaviour
MaxJoins == 2
\* listing requests compared in one behaviour
MaxListings == 2
\* notifications routes emit on getIO() in one behaviour
MaxDirect == 1
\* codes generateUniqueCode draws from; stands for the 100 two-digit codes of
\* redis.js:130, scaled down so that the code space can fill up
NumCodes == 2
\* rows of the booking table, and booking handlers in flight at a time
MaxBookings == 2
\* keys one SCAN call visits; stands for COUNT 100 of redis.js:65, scaled
\* down so that the matching keys of a pattern need several iterations
ScanCount == 1

(***************************************************************************)
(* Program constants.                                                      *)
(***************************************************************************)
DEFAULT_TTL == 172800
SEARCH_TTL == 300

(***************************************************************************)
(* JavaScript values that a compute function (dbQuery) can return.         *)
(*   t   : JS type tag                                                     *)
(*   q   : the cache key of the query that produced the value              *)
(*   ver : version of the queried rows the value was computed from         *)
(*   d   : how date columns appear: "Date" objects (Prisma records),       *)
(*         "iso" strings (after JSON), "none" (no date column)             *)
(***************************************************************************)
Val(t, q, ver, d) == [t |-> t, q |-> q, ver |-> ver, d |-> d]
JsNull == Val("null", <<>>, 0, "none")
JsUndefined == Val("undefined", <<>>, 0, "none")
JsZero == Val("number0", <<>>, 0, "none")
JsFalse == Val("false", <<>>, 0, "none")
JsEmptyString == Val("emptyString", <<>>, 0, "none")
JsEmptyArray == Val("emptyArray", <<>>, 0, "none")
NoVal == Val("none", <<>>, 0, "none")
Garbage == Val("garbage", <<>>, 0, "none")

\* JavaScript truthiness, as used by `if (data)` and `if (cachedData)`
Truthy(v) == v.t \notin {"null", "undefined", "number0", "false", "emptyString", "none"}

(***************************************************************************)
(* JSON.stringify / JSON.parse.  A cached text is represented by the value *)
(* it parses to; stringify turns Date objects into ISO strings, so the     *)
(* round trip is the identity only on values without Date objects.         *)
(***************************************************************************)
JSONstringify(v) == IF v.d = "Date" THEN [v EXCEPT !.d = "iso"] ELSE v
ParseThrows(text) == text.t = "garbage"
JSONparse(text) == text

(***************************************************************************)
(* Cache keys: `${resource}:${id}` as a sequence of tokens.                *)
(***************************************************************************)
CacheKey(resource, id) == <<resource, ":">> \o id
\* `performers_p${page}_l${limit}_s${search}` with limit 10 and no search
ListingId(kind, page) == <<kind, "_p", page, "_l", "10", "_s">>
SearchId(queryHash) == <<queryHash>>

\* `search.replace(/\s/g, "")` (user.js:181, 248) on a search text given as
\* its sequence of characters
StripWhitespace(search) == SelectSeq(search, LAMBDA ch : ch # " ")
\* the id the listing handlers build from their query parameters
ListingCacheId(kind, page, search) == ListingId(kind, page) \o StripWhitespace(search)
\* `const search = req.query.search || ""`: no search, or a search for a blank
Searches == {<<>>, <<" ">>}
\* the where clause of the handler's queries: `search ? {OR: [...]} : {}`
\* (user.js:165-174, 232-241), named by the listing and the search text
LogicalQuery(k, search) == k \o search

PerformerKeys == {CacheKey("users", ListingId("performers", pg)) : pg \in {"1", "2"}}
CustomerKeys == {CacheKey("users", ListingId("customers", "1"))}
SearchKeys == {CacheKey("search_performers", SearchId("h1"))}
Keys == PerformerKeys \cup CustomerKeys \cup SearchKeys

\* the aggregate query a key caches
Namespaces == {"performers", "customers", "search"}
NamespaceOf(k) ==
  IF k \in PerformerKeys THEN "performers"
  ELSE IF k \in CustomerKeys THEN "customers" ELSE "search"

\* the pattern of routes/admin.js:81, "users:performers_p*"
ModerationPattern == <<"users", ":", "performers", "_p", "*">>

\* glob matching of SCAN ... MATCH pattern: "*" matches any run of tokens
RECURSIVE GlobMatch(_, _)
GlobMatch(pat, s) ==
  IF pat = <<>> THEN s = <<>>
  ELSE IF Head(pat) = "*"
       THEN GlobMatch(Tail(pat), s) \/ (s # <<>> /\ GlobMatch(pat, Tail(s)))
       ELSE s # <<>> /\ Head(s) = Head(pat) /\ GlobMatch(Tail(pat), Tail(s))

(***************************************************************************)
(* Compute functions (the dbQuery argument of fetchCached).                *)
(***************************************************************************)
ListingFns == {"listing"}
\* the closure of a listing request whose search text is a blank
SearchFns == {"listingBlank"}
GenericFns == {"plain", "null", "undefined", "zero", "false", "emptyString", "emptyArray", "throws"}
Fns == ListingFns \cup GenericFns

Throws(fn) == fn = "throws"
Compute(fn, k, db) ==
  CASE fn = "listing" -> Val("object", k, db[NamespaceOf(k)], "Date")
    [] fn = "listingBlank" -> Val("object", LogicalQuery(k, <<" ">>), db[NamespaceOf(k)], "Date")
    [] fn = "plain" -> Val("object", k, db[NamespaceOf(k)], "none")
    [] fn = "null" -> JsNull
    [] fn = "undefined" -> JsUndefined
    [] fn = "zero" -> JsZero
    [] fn = "false" -> JsFalse
    [] fn = "emptyString" -> JsEmptyString
    [] fn = "emptyArray" -> JsEmptyArray
    [] OTHER -> NoVal

(***************************************************************************)
(* State.                                                                  *)
(***************************************************************************)
VARIABLES
  keyspace,    \* the cache keys this deployment uses (fixed by Init)
  store,       \* cache store: key -> [present, text, ttl]
  dbVer,       \* source of truth: namespace -> version of the rows it reads
  faultsLeft,  \* cache-store commands that may still be rejected
  writesLeft,  \* writes to the users table that may still be committed
  pc,          \* fetchCached caller -> position in fetchCached
  cur,         \* fetchCached caller -> its current (or last) call
  prev,        \* fetchCached caller -> the call before cur (history)
  disturbed,   \* caller -> the key of its last successful SET was deleted,
               \* expired or overwritten since (history; cur.clean is its
               \* negation at the moment of the call's GET)
  hpc,         \* position of the running mutation handler
  hrun,        \* the running (or last) mutation handler run
  scanLeft,    \* invalidatePattern: keyspace slots SCAN has not visited yet
  scanKeys,    \* invalidatePattern: keys the last SCAN returned
  invSnap,     \* store when the running invalidatePattern started (history)
  invDisturbed,\* a concurrent store change or fault hit the run (history)
  fence        \* version written by the last write whose invalidation completed

\* state of the modules around the cache and the gateway
VARIABLES
  joins,       \* join_chat events clients sent over accepted connections (history)
  direct,      \* process -> emissions routes made on getIO() themselves (history)
  codeKeys,    \* the live keys code:NN of the store
  gen,         \* caller -> its call of generateUniqueCode: [pc, code, ret, created]
  bookings,    \* the booking table: id -> [performer, date, status]
  breq,        \* booking handlers in flight
  searchStore, \* the live keys search_performers:<hash>
  searches,    \* the calls of searchPerformers so far: [params, key, hit] (history)
  listings     \* listing requests so far with their cache key and query (history)

roomVars == <<joins, direct>>
codeVars == <<codeKeys, gen>>
bookingVars == <<bookings, breq>>
searchVars == <<searchStore, searches>>
appVars == <<roomVars, codeVars, bookingVars, searchVars, listings>>

cacheCore == <<keyspace, store, dbVer, faultsLeft, writesLeft, pc, cur, prev, disturbed, hpc, hrun,
               scanLeft, scanKeys, invSnap, invDisturbed, fence>>
cacheVars == <<cacheCore, appVars>>

\* state of the real-time gateway (services/socket.js)
VARIABLES
  conn,        \* connection -> [state, user, hpc, dpc, rooms, list]
  presence,    \* the Redis set online_users_set
  published,   \* every envelope Redis accepted on app_events_stream, in order
  chan,        \* process -> indices of published not yet handed to its callback
  emitted,     \* process -> emissions of its io instance, in order (history)
  pending,     \* send_message handlers awaiting prisma.message.create
  persisted,   \* message records in the order they were created
  nextMsg,     \* number of the next message a client sends
  http,        \* POST /:chatId/messages requests in flight: [n, sender, chatId, pc]
  outcomes     \* what each finished operation reported to its caller (history)

gwCore == <<conn, presence, published, chan, emitted, pending, persisted, nextMsg, http, outcomes>>
gwVars == <<gwCore, appVars>>

Readers == {"r1", "r2"}

Absent == [present |-> FALSE, text |-> NoVal, ttl |-> 0]
NoCall == [key |-> <<>>, fn |-> "none", calls |-> 0, first |-> NoVal, computed |-> NoVal,
           ret |-> NoVal, stored |-> FALSE, fault |-> FALSE, hit |-> FALSE,
           minVer |-> 0, clean |-> FALSE]
NoRun == [handler |-> "none", role |-> "none", committed |-> FALSE, calls |-> {},
          fault |-> FALSE, dels |-> 0, status |-> 0]

\* ttl argument at the call sites: default (user.js:184, 251), 300 (search.js:206)
TtlFor(k) == IF NamespaceOf(k) = "search" THEN SEARCH_TTL ELSE DEFAULT_TTL

\* callers whose last stored key is k lose the "undisturbed" history flag
Disturb(ks, except) ==
  [p \in Readers |-> IF p \notin except /\ cur[p].key \in ks THEN TRUE ELSE disturbed[p]]

MayFault == IF faultsLeft > 0 THEN {FALSE, TRUE} ELSE {FALSE}

(***************************************************************************)
(* fetchCached (redis.js:89-117), one action per await.                    *)
(***************************************************************************)
\* `if (cachedData)` (redis.js:96): redis.get gives null for a missing key
MutNeverHit(cachedData) == FALSE
IsHit(cachedData) == cachedData.present

\* `if (data)` (redis.js:106)
ShouldStore(data) == Truthy(data)

\* call of fetchCached(resource, id, dbQuery, ttl): key built, redis.get issued
FetchStart(p, k, fn, remember) ==
  /\ pc[p] \in {"idle", "done", "threw"}
  /\ k \in keyspace
  /\ pc' = [pc EXCEPT ![p] = "get"]
  /\ prev' = [prev EXCEPT ![p] = IF remember /\ cur[p].stored THEN cur[p] ELSE NoCall]
  /\ cur' = [cur EXCEPT ![p] = [NoCall EXCEPT !.key = k, !.fn = fn, !.minVer = fence]]
  /\ disturbed' = [disturbed EXCEPT ![p] = IF cur[p].key = k THEN @ ELSE TRUE]
  /\ UNCHANGED <<gwVars, keyspace, writesLeft, store, dbVer, faultsLeft, hpc, hrun, scanLeft, scanKeys, invSnap,
                 invDisturbed, fence>>

\* `await redis.get(key)` resolves or rejects; hit -> JSON.parse and return
RedisGet(p) ==
  /\ pc[p] = "get"
  /\ \E fault \in MayFault :
       LET cachedData == store[cur[p].key] IN
       IF fault \/ (IsHit(cachedData) /\ ParseThrows(cachedData.text))
       THEN /\ pc' = [pc EXCEPT ![p] = "catch"]
            /\ cur' = [cur EXCEPT ![p].fault = TRUE, ![p].clean = ~disturbed[p]]
            /\ faultsLeft' = IF fault THEN faultsLeft - 1 ELSE faultsLeft
       ELSE /\ faultsLeft' = faultsLeft
            /\ IF IsHit(cachedData)
               THEN /\ pc' = [pc EXCEPT ![p] = "done"]
                    /\ cur' = [cur EXCEPT ![p].hit = TRUE, ![p].clean = ~disturbed[p],
                                          ![p].ret = JSONparse(cachedData.text)]
               ELSE /\ pc' = [pc EXCEPT ![p] = "query"]
                    /\ cur' = [cur EXCEPT ![p].clean = ~disturbed[p]]
  /\ UNCHANGED <<gwVars, keyspace, writesLeft, store, dbVer, prev, disturbed, hpc, hrun, scanLeft, scanKeys,
                 invSnap, invDisturbed, fence>>

\* `const data = await dbQuery()` inside the try block (redis.js:103-106)
DbQuery(p) ==
  /\ pc[p] = "query"
  /\ IF Throws(cur[p].fn)
     THEN /\ pc' = [pc EXCEPT ![p] = "catch"]
          /\ cur' = [cur EXCEPT ![p].calls = @ + 1]
     ELSE LET data == Compute(cur[p].fn, cur[p].key, dbVer) IN
          /\ cur' = [cur EXCEPT ![p].calls = @ + 1, ![p].first = data, ![p].computed = data,
                                ![p].ret = IF ShouldStore(data) THEN @ ELSE data]
          /\ pc' = [pc EXCEPT ![p] = IF ShouldStore(data) THEN "set" ELSE "done"]
  /\ UNCHANGED <<gwVars, keyspace, writesLeft, store, dbVer, faultsLeft, prev, disturbed, hpc, hrun, scanLeft,
                 scanKeys, invSnap, invDisturbed, fence>>

\* `await redis.set(key, JSON.stringify(data), "EX", ttl)`; then `return data`
RedisSet(p) ==
  /\ pc[p] = "set"
  /\ \E fault \in MayFault :
       IF fault
       THEN /\ pc' = [pc EXCEPT ![p] = "catch"]
            /\ cur' = [cur EXCEPT ![p].fault = TRUE]
            /\ faultsLeft' = faultsLeft - 1
            /\ UNCHANGED <<gwVars, keyspace, writesLeft, store, disturbed>>
       ELSE /\ store' = [store EXCEPT ![cur[p].key] =
                           [present |-> TRUE, text |-> JSONstringify(cur[p].computed),
                            ttl |-> TtlFor(cur[p].key)]]
            /\ cur' = [cur EXCEPT ![p].stored = TRUE, ![p].ret = cur[p].computed]
            /\ pc' = [pc EXCEPT ![p] = "done"]
            /\ disturbed' = [Disturb({cur[p].key}, {p}) EXCEPT ![p] = FALSE]
            /\ faultsLeft' = faultsLeft
  /\ invDisturbed' = (invDisturbed \/ hpc # "idle")
  /\ UNCHANGED <<gwVars, keyspace, writesLeft, dbVer, prev, hpc, hrun, scanLeft, scanKeys, invSnap, fence>>

\* catch block: `return await dbQuery()` (redis.js:112-116)
MutCatchRethrows(p) ==
  /\ pc[p] = "catch"
  /\ pc' = [pc EXCEPT ![p] = "threw"]
  /\ UNCHANGED <<gwVars, keyspace, writesLeft, store, dbVer, faultsLeft, cur, prev, disturbed, hpc, hrun,
                 scanLeft, scanKeys, invSnap, invDisturbed, fence>>
CatchFallback(p) ==
  /\ pc[p] = "catch"
  /\ IF Throws(cur[p].fn)
     THEN /\ pc' = [pc EXCEPT ![p] = "threw"]
          /\ cur' = [cur EXCEPT ![p].calls = @ + 1]
     ELSE LET data == Compute(cur[p].fn, cur[p].key, dbVer) IN
          /\ pc' = [pc EXCEPT ![p] = "done"]
          /\ cur' = [cur EXCEPT ![p].calls = @ + 1, ![p].computed = data,
                                ![p].ret = data]
  /\ UNCHANGED <<gwVars, keyspace, writesLeft, store, dbVer, faultsLeft, prev, disturbed, hpc, hrun, scanLeft,
                 scanKeys, invSnap, invDisturbed, fence>>

\* the key's TTL (set with "EX") runs out
Expire(k) ==
  /\ store[k].present
  /\ store' = [store EXCEPT ![k] = Absent]
  /\ disturbed' = Disturb({k}, {})
  /\ invDisturbed' = (invDisturbed \/ hpc # "idle")
  /\ UNCHANGED <<gwVars, keyspace, writesLeft, dbVer, faultsLeft, pc, cur, prev, hpc, hrun, scanLeft, scanKeys,
                 invSnap, fence>>

\* something other than fetchCached leaves a text that is not JSON under k
CorruptEntry(k) ==
  /\ faultsLeft > 0
  /\ store[k].present
  /\ ~ParseThrows(store[k].text)
  /\ store' = [store EXCEPT ![k].text = Garbage]
  /\ faultsLeft' = faultsLeft - 1
  /\ disturbed' = Disturb({k}, {})
  /\ invDisturbed' = (invDisturbed \/ hpc # "idle")
  /\ UNCHANGED <<gwVars, keyspace, writesLeft, dbVer, pc, cur, prev, hpc, hrun, scanLeft, scanKeys, invSnap, fence>>

\* GET /performers, GET /customers (user.js:153-285) up to the call of
\* fetchCached("users", cacheKey, closure over whereClause)
ListingClosure(search) == IF search = <<>> THEN "listing" ELSE "listingBlank"
GetListing(p, kind, page, search) ==
  FetchStart(p, CacheKey("users", ListingCacheId(kind, page, search)), ListingClosure(search), FALSE)

\* GET /performers, GET /customers (user.js:153-285): the response status
ListingResponse(outcome, result) ==
  IF outcome = "threw" \/ result.t \in {"null", "undefined"} THEN 500 ELSE 200

(***************************************************************************)
(* Mutation handlers on the users table.                                   *)
(***************************************************************************)
Roles == {"performer", "customer"}

\* Cached aggregate queries whose result a write to a user row of the given
\* role can change: user.js:163 (role customer), user.js:230 (role
\* performer), search.js:43-46 (approved, role not customer/administrator).
AffectedBy(role) == IF role = "performer" THEN {"performers", "search"} ELSE {"customers"}

Commit(role) == [ns \in Namespaces |-> IF ns \in AffectedBy(role) THEN dbVer[ns] + 1 ELSE dbVer[ns]]

\* handlers that write a user row and call no invalidation:
\* approveProfile / rejectProfile (controllers/admin.js:64-76),
\* PATCH and DELETE /api/performers/:id (routes/performer.js:90-245),
\* POST/PUT/DELETE /user (unnamed/part_004:45-123)
WriteOnlyHandlers == {"approveProfile", "rejectProfile", "performerUpdate",
                      "performerDelete", "adminUserCreate", "adminUserUpdate",
                      "adminUserDelete"}
HandlerRoles(h) == IF h \in {"performerUpdate", "performerDelete"} THEN {"performer"} ELSE Roles

\* the whole handler: the prisma write commits (ok) or throws, then the response
WriteOnlyHandler(h, role, ok) ==
  /\ hpc = "idle"
  /\ role \in HandlerRoles(h)
  /\ writesLeft > 0
  /\ writesLeft' = writesLeft - 1
  /\ dbVer' = IF ok THEN Commit(role) ELSE dbVer
  /\ hrun' = [NoRun EXCEPT !.handler = h, !.role = role, !.committed = ok,
                           !.status = IF ok THEN 200 ELSE 500]
  /\ UNCHANGED <<gwVars, keyspace, store, faultsLeft, pc, cur, prev, disturbed, hpc, scanLeft, scanKeys,
                 invSnap, invDisturbed, fence>>

\* PATCH /profile/moderation/:id (routes/admin.js:54-81): validation, then
\* `await prisma.user.update`, then invalidatePattern is entered
ModerationUpdate(role, valid, found) ==
  /\ hpc = "idle"
  /\ writesLeft > 0
  /\ writesLeft' = writesLeft - 1
  /\ IF valid /\ found
     THEN /\ dbVer' = Commit(role)
          /\ hpc' = "scan"
          /\ scanLeft' = keyspace
          /\ scanKeys' = {}
          /\ invSnap' = store
          /\ invDisturbed' = FALSE
          /\ hrun' = [NoRun EXCEPT !.handler = "moderation", !.role = role,
                                   !.committed = TRUE, !.calls = {ModerationPattern}]
     ELSE /\ hrun' = [NoRun EXCEPT !.handler = "moderation", !.role = role,
                                   !.status = IF valid THEN 500 ELSE 400]
          /\ UNCHANGED <<dbVer, hpc, scanLeft, scanKeys, invSnap, invDisturbed>>
  /\ UNCHANGED <<gwVars, keyspace, store, faultsLeft, pc, cur, prev, disturbed, fence>>

\* record of a finished operation: did its persistence write commit, did its
\* publish fail, and did it report success to its caller
Outcome(op, n, who, persistedOk, pubFault, ok) ==
  [op |-> op, n |-> n, who |-> who, persisted |-> persistedOk, pubFault |-> pubFault,
   ok |-> ok]

\* invalidateKeys(keys) (redis.js:37-48): nothing for an empty argument, else
\* one `await redis.del(...keysToDelete)` inside try/catch; the call returns
\* normally either way
InvalidateKeys(ks) ==
  IF ks = {}
  THEN /\ outcomes' = outcomes \cup {Outcome("invalidateKeys", 0, "cache", TRUE, FALSE, TRUE)}
       /\ UNCHANGED <<conn, presence, published, chan, emitted, pending, persisted, nextMsg, http>>
       /\ UNCHANGED cacheVars
  ELSE /\ \E fault \in MayFault :
            /\ faultsLeft' = IF fault THEN faultsLeft - 1 ELSE faultsLeft
            /\ store' = [k \in Keys |-> IF k \in ks /\ ~fault THEN Absent ELSE store[k]]
            /\ disturbed' = IF fault THEN disturbed ELSE Disturb(ks, {})
            /\ outcomes' = outcomes \cup {Outcome("invalidateKeys", Cardinality(ks), "cache", TRUE, fault, TRUE)}
       /\ invDisturbed' = invDisturbed
       /\ UNCHANGED <<conn, presence, published, chan, emitted, pending, persisted, nextMsg, http>>
       /\ UNCHANGED <<appVars, keyspace, writesLeft, dbVer, pc, cur, prev, hpc, hrun, scanLeft, scanKeys, invSnap, fence>>

(***************************************************************************)
(* invalidatePattern (redis.js:55-80).  SCAN visits every slot of the      *)
(* keyspace once per full iteration, a batch per call, and returns the     *)
(* keys found there that match; the cursor is "0" when no slot is left.    *)
(***************************************************************************)
Batches == {B \in SUBSET scanLeft : B # {} /\ Cardinality(B) <= ScanCount}

\* after the loop (or the catch block): back in the handler
InvNextPc(left) == IF left = {} THEN "respond" ELSE "scan"

\* `await redis.scan(cursor, "MATCH", pattern, "COUNT", 100)`
InvScan ==
  /\ hpc = "scan"
  /\ \E fault \in MayFault :
       IF fault
       THEN /\ faultsLeft' = faultsLeft - 1
            /\ hrun' = [hrun EXCEPT !.fault = TRUE]
            /\ hpc' = "respond"
            /\ UNCHANGED <<gwVars, keyspace, writesLeft, scanLeft, scanKeys>>
       ELSE \E B \in Batches :
            LET keys == {k \in B : store[k].present /\ GlobMatch(ModerationPattern, k)} IN
            /\ scanLeft' = scanLeft \ B
            /\ scanKeys' = keys
            /\ hpc' = IF keys # {} THEN "del" ELSE InvNextPc(scanLeft \ B)
            /\ UNCHANGED <<gwVars, keyspace, writesLeft, faultsLeft, hrun>>
  /\ UNCHANGED <<gwVars, keyspace, writesLeft, store, dbVer, pc, cur, prev, disturbed, invSnap, invDisturbed, fence>>

\* `await redis.del(...keys)`, then `while (cursor !== "0")`
MutDelFirstOnly ==
  /\ hpc = "del"
  /\ store' = [k \in Keys |-> IF k \in scanKeys /\ hrun.dels = 0 THEN Absent ELSE store[k]]
  /\ disturbed' = Disturb(scanKeys, {})
  /\ hrun' = [hrun EXCEPT !.dels = @ + 1]
  /\ hpc' = InvNextPc(scanLeft)
  /\ scanKeys' = {}
  /\ UNCHANGED <<gwVars, keyspace, writesLeft, dbVer, faultsLeft, pc, cur, prev, scanLeft, invSnap, invDisturbed, fence>>
MutDelThrows ==
  /\ hpc = "del"
  /\ \E fault \in MayFault :
       IF fault
       THEN /\ faultsLeft' = faultsLeft - 1
            /\ hrun' = [hrun EXCEPT !.fault = TRUE, !.status = 500]
            /\ hpc' = "idle"
            /\ UNCHANGED <<gwVars, keyspace, writesLeft, store, disturbed>>
       ELSE /\ store' = [k \in Keys |-> IF k \in scanKeys THEN Absent ELSE store[k]]
            /\ disturbed' = Disturb(scanKeys, {})
            /\ hrun' = [hrun EXCEPT !.dels = @ + 1]
            /\ hpc' = InvNextPc(scanLeft)
            /\ faultsLeft' = faultsLeft
  /\ scanKeys' = {}
  /\ UNCHANGED <<gwVars, keyspace, writesLeft, dbVer, pc, cur, prev, scanLeft, invSnap, invDisturbed, fence>>
InvDel ==
  /\ hpc = "del"
  /\ \E fault \in MayFault :
       IF fault
       THEN /\ faultsLeft' = faultsLeft - 1
            /\ hrun' = [hrun EXCEPT !.fault = TRUE]
            /\ hpc' = "respond"
            /\ UNCHANGED <<gwVars, keyspace, writesLeft, store, disturbed>>
       ELSE /\ store' = [k \in Keys |-> IF k \in scanKeys THEN Absent ELSE store[k]]
            /\ disturbed' = Disturb(scanKeys, {})
            /\ hrun' = [hrun EXCEPT !.dels = @ + 1]
            /\ hpc' = InvNextPc(scanLeft)
            /\ faultsLeft' = faultsLeft
  /\ scanKeys' = {}
  /\ UNCHANGED <<gwVars, keyspace, writesLeft, dbVer, pc, cur, prev, scanLeft, invSnap, invDisturbed, fence>>

\* routes/admin.js:83-96: invalidatePattern has returned, respond 200
ModerationRespond ==
  /\ hpc = "respond"
  /\ hpc' = "idle"
  /\ hrun' = [hrun EXCEPT !.status = 200, !.dels = 0]
  /\ fence' = IF hrun.fault THEN fence ELSE dbVer["performers"]
  /\ invSnap' = [k \in Keys |-> Absent]
  /\ invDisturbed' = FALSE
  /\ UNCHANGED <<gwVars, keyspace, writesLeft, store, dbVer, faultsLeft, pc, cur, prev, disturbed, scanLeft, scanKeys>>

(***************************************************************************)
(* Real-time gateway (services/socket.js).  Every backend process runs one *)
(* gateway; all share the presence set and the pub/sub channel of Redis.   *)
(***************************************************************************)
Procs == {"P1", "P2"}
Conns == {"c1", "c2", "c3"}
\* the gateway process a client's connection lands on
ConnProc(c) == IF c = "c3" THEN "P2" ELSE "P1"
Users == {"u1", "u2"}
Chats == {"ch1", "ch2"}
NoUser == "none"
NoChat == "none"

NoConn == [state |-> "new", user |-> NoUser, hpc |-> "none", dpc |-> "none",
           rooms |-> {}, list |-> {}]

Envelope(type, userId, status, chatId, receiverId, msg, src) ==
  [type |-> type, userId |-> userId, status |-> status, chatId |-> chatId,
   receiverId |-> receiverId, msg |-> msg, src |-> src, shape |-> "ok"]

\* publishEvent (socket.js:197-203): Redis appends the envelope to the output
\* of every subscribed connection; each process holds one (socket.js:77)
PublishTo(q, e) == Append(q, Len(published) + 1)
Publish(e) ==
  /\ published' = Append(published, e)
  /\ chan' = [P \in Procs |-> PublishTo(chan[P], e)]

\* `await redis.publish(...)` resolves, or rejects and nothing is published
PublishEvent(e, fault) ==
  IF fault
  THEN /\ faultsLeft' = faultsLeft - 1
       /\ UNCHANGED <<published, chan>>
  ELSE /\ faultsLeft' = faultsLeft
       /\ Publish(e)


\* `socket.handshake.query.userId || socket.handshake.auth.userId` (socket.js:106-107)
HandshakeUserId(query, auth) == IF query # NoUser THEN query ELSE auth

\* io.use middleware and the start of the connection handler (socket.js:105-124):
\* no userId -> refused; else personal room joined and SADD issued
MutConnectUnchecked(c, userId) ==
  /\ conn[c].state = "new"
  /\ conn' = [conn EXCEPT ![c] = [NoConn EXCEPT !.state = "open", !.user = userId,
                                                !.rooms = {userId}, !.hpc = "sadd"]]
  /\ UNCHANGED <<presence, published, chan, emitted, pending, persisted, nextMsg, http, outcomes>>
Connect(c, userId) ==
  /\ conn[c].state = "new"
  /\ conn' = [conn EXCEPT ![c] =
                IF userId = NoUser
                THEN [NoConn EXCEPT !.state = "refused"]
                ELSE [NoConn EXCEPT !.state = "open", !.user = userId,
                                    !.rooms = {userId}, !.hpc = "sadd"]]
  /\ UNCHANGED <<presence, published, chan, emitted, pending, persisted, nextMsg, http, outcomes>>

\* `await redis.sadd` resolves; publishEvent(online); SMEMBERS issued (socket.js:124-133)
MutPublishBeforeAdd(c) ==
  /\ conn[c].hpc = "sadd"
  /\ Publish(Envelope("USER_STATUS", conn[c].user, "online", NoChat, NoUser, 0, c))
  /\ outcomes' = outcomes \cup {Outcome("connect", 0, c, TRUE, FALSE, TRUE)}
  /\ conn' = [conn EXCEPT ![c].hpc = "smembers"]
  /\ UNCHANGED <<presence, emitted, pending, persisted, nextMsg, http, faultsLeft>>
SaddDone(c) ==
  /\ conn[c].hpc = "sadd"
  /\ presence' = presence \cup {conn[c].user}
  /\ \E fault \in MayFault :
       /\ PublishEvent(Envelope("USER_STATUS", conn[c].user, "online", NoChat, NoUser, 0, c),
                       fault)
       /\ outcomes' = outcomes \cup {Outcome("connect", 0, c, TRUE, fault, TRUE)}
  /\ conn' = [conn EXCEPT ![c].hpc = "smembers"]
  /\ UNCHANGED <<emitted, pending, persisted, nextMsg, http>>

\* `await redis.smembers` resolves; online_users_list emitted; the join_chat,
\* send_message and disconnect listeners are registered (socket.js:133-186)
SmembersDone(c) ==
  /\ conn[c].hpc = "smembers"
  /\ conn' = [conn EXCEPT ![c].hpc = "ready",
                          ![c].list = IF conn[c].state = "open" THEN presence ELSE {}]
  /\ UNCHANGED <<presence, published, chan, emitted, pending, persisted, nextMsg, http, outcomes>>

\* the client goes away or the transport drops: socket.io leaves every room
\* and emits "disconnect" to the listeners registered at that moment
Disconnect(c) ==
  /\ conn[c].state = "open"
  /\ conn' = [conn EXCEPT ![c].state = "closed", ![c].rooms = {},
                          ![c].dpc = IF conn[c].hpc = "ready" THEN "srem" ELSE "none"]
  /\ UNCHANGED <<presence, published, chan, emitted, pending, persisted, nextMsg, http, outcomes>>

\* disconnect listener: `await redis.srem` resolves; publishEvent(offline)
\* (socket.js:178-186)
SremDone(c) ==
  /\ conn[c].dpc = "srem"
  /\ presence' = presence \ {conn[c].user}
  /\ \E fault \in MayFault :
       /\ PublishEvent(Envelope("USER_STATUS", conn[c].user, "offline", NoChat, NoUser, 0, c),
                       fault)
       /\ outcomes' = outcomes \cup {Outcome("disconnect", 0, c, TRUE, fault, TRUE)}
  /\ conn' = [conn EXCEPT ![c].dpc = "done"]
  /\ UNCHANGED <<emitted, pending, persisted, nextMsg, http>>

\* client event join_chat(chatId) (socket.js:137-142); lost without a listener
JoinChat(c, chatId) ==
  /\ conn[c].state = "open"
  /\ conn' = [conn EXCEPT ![c].rooms =
                IF conn[c].hpc = "ready" /\ chatId # "" THEN @ \cup {chatId} ELSE @]
  /\ UNCHANGED <<presence, published, chan, emitted, pending, persisted, nextMsg, http, outcomes>>

\* a client emits join_chat(chatId) over its accepted connection; the server
\* runs the listener if one is registered by then
JoinRooms == Chats \cup Users \cup {""}
JoinChatEvent(c, chatId) ==
  /\ Cardinality(joins) < MaxJoins
  /\ JoinChat(c, chatId)
  /\ joins' = joins \cup {[conn |-> c, chatId |-> chatId]}
  /\ UNCHANGED <<cacheCore, direct, codeVars, bookingVars, searchVars, listings>>

\* client event send_message(data): prisma.message.create issued (socket.js:147-161)
SendMessage(c, chatId, receiverId) ==
  /\ conn[c].state = "open"
  /\ conn[c].hpc = "ready"
  /\ nextMsg <= MaxMsgs
  /\ pending' = pending \cup {[n |-> nextMsg, conn |-> c, chatId |-> chatId,
                               receiverId |-> receiverId]}
  /\ nextMsg' = nextMsg + 1
  /\ UNCHANGED <<conn, presence, published, chan, emitted, persisted, http, outcomes>>

\* prisma.message.create resolves -> publishEvent(NEW_MESSAGE), or rejects ->
\* "error" emitted to the socket (socket.js:149-174)
MutPublishUnpersisted(m, ok) ==
  /\ m \in pending
  /\ pending' = pending \ {m}
  /\ Publish(Envelope("NEW_MESSAGE", conn[m.conn].user, "", m.chatId, m.receiverId, m.n, m.conn))
  /\ outcomes' = outcomes \cup {Outcome("send_message", m.n, m.conn, FALSE, FALSE, TRUE)}
  /\ UNCHANGED <<conn, presence, emitted, nextMsg, http, persisted, faultsLeft>>
PersistDone(m, ok) ==
  /\ m \in pending
  /\ pending' = pending \ {m}
  /\ IF ok
     THEN /\ persisted' = Append(persisted, m.n)
          /\ \E fault \in MayFault :
               /\ PublishEvent(Envelope("NEW_MESSAGE", conn[m.conn].user, "", m.chatId,
                                        m.receiverId, m.n, m.conn), fault)
               /\ outcomes' = outcomes \cup
                    {Outcome("send_message", m.n, m.conn, TRUE, fault, TRUE)}
     ELSE /\ outcomes' = outcomes \cup
               {Outcome("send_message", m.n, m.conn, FALSE, FALSE, FALSE)}
          /\ UNCHANGED <<persisted, published, chan, faultsLeft>>
  /\ UNCHANGED <<conn, presence, emitted, nextMsg, http>>

\* sendNotification (socket.js:205-216) awaited by a handler whose write has
\* committed (e.g. user.js:655-677): publishEvent, then the handler goes on
SendNotification(userId) ==
  /\ Len(published) < MaxEnvelopes
  /\ \E fault \in MayFault :
       /\ PublishEvent(Envelope("NOTIFICATION", userId, "", NoChat, NoUser, 0, "http"), fault)
       /\ outcomes' = outcomes \cup {Outcome("sendNotification", 0, userId, TRUE, fault, TRUE)}
  /\ UNCHANGED <<conn, presence, emitted, pending, persisted, nextMsg, http>>

\* participants of the chats: ch1 is a chat of u1 and u2, ch2 was created by
\* u1 with targetUserId u1 (part_010:42-48 connects both ids)
Participants(ch) == IF ch = "ch1" THEN {"u1", "u2"} ELSE {"u1"}

\* `newMessage.chat.participants.find((p) => p.id !== senderId)` (part_010:187-189)
FindReceiver(ch, senderId) ==
  LET others == Participants(ch) \ {senderId} IN
  IF others = {} THEN NoUser ELSE CHOOSE u \in others : TRUE

\* POST /:chatId/messages (part_010:156-176): content check, then
\* prisma.message.create is issued
HttpSendMessage(senderId, chatId, hasContent) ==
  /\ nextMsg <= MaxMsgs
  /\ nextMsg' = nextMsg + 1
  /\ IF hasContent
     THEN /\ http' = http \cup {[n |-> nextMsg, sender |-> senderId, chatId |-> chatId,
                                 pc |-> "create"]}
          /\ UNCHANGED outcomes
     ELSE /\ outcomes' = outcomes \cup
               {Outcome("sendMessage", nextMsg, senderId, FALSE, FALSE, FALSE)}
          /\ UNCHANGED http
  /\ UNCHANGED <<conn, presence, published, chan, emitted, pending, persisted>>

\* prisma.message.create resolves (then prisma.chat.update is issued) or
\* rejects (catch: 500) (part_010:166-183, 204-207)
HttpCreateDone(r, ok) ==
  /\ r \in http
  /\ r.pc = "create"
  /\ IF ok
     THEN /\ persisted' = Append(persisted, r.n)
          /\ http' = (http \ {r}) \cup {[r EXCEPT !.pc = "update"]}
          /\ UNCHANGED outcomes
     ELSE /\ http' = http \ {r}
          /\ outcomes' = outcomes \cup
               {Outcome("sendMessage", r.n, r.sender, FALSE, FALSE, FALSE)}
          /\ UNCHANGED persisted
  /\ UNCHANGED <<conn, presence, published, chan, emitted, pending, nextMsg>>

\* prisma.chat.update resolves: with a receiver redis.publish is issued,
\* without one the response is 201; or it rejects (catch: 500)
\* (part_010:180-191, 203-207)
HttpUpdateDone(r, ok) ==
  /\ r \in http
  /\ r.pc = "update"
  /\ IF ok /\ FindReceiver(r.chatId, r.sender) # NoUser
     THEN /\ http' = (http \ {r}) \cup {[r EXCEPT !.pc = "publish"]}
          /\ UNCHANGED outcomes
     ELSE /\ http' = http \ {r}
          /\ outcomes' = outcomes \cup
               {Outcome("sendMessage", r.n, r.sender, TRUE, FALSE, ok)}
  /\ UNCHANGED <<conn, presence, published, chan, emitted, pending, persisted, nextMsg>>

\* `await redis.publish(...)` resolves (201) or rejects (catch: 500)
\* (part_010:191-207)
HttpPublishDone(r) ==
  /\ r \in http
  /\ r.pc = "publish"
  /\ http' = http \ {r}
  /\ \E fault \in MayFault :
       /\ PublishEvent(Envelope("NEW_MESSAGE", r.sender, "", r.chatId,
                                FindReceiver(r.chatId, r.sender), r.n, "http"), fault)
       /\ outcomes' = outcomes \cup
            {Outcome("sendMessage", r.n, r.sender, TRUE, fault, ~fault)}
  /\ UNCHANGED <<conn, presence, emitted, pending, persisted, nextMsg>>

\* sockets an emission of process P's io instance can reach: the Server is
\* created without an adapter (socket.js:97-102), so only its own sockets
EmitReach(P) == {c \in Conns : ConnProc(c) = P}

Emission(i, event, room) == [eid |-> i, event |-> event, room |-> room]

\* handleRedisEvent (socket.js:30-74): the emissions for envelope number i;
\* room "*" stands for io.emit, the broadcast to every socket of the process
MutAlsoToReceiverRoom(i) ==
  LET e == published[i] IN
  IF e.type = "NEW_MESSAGE"
  THEN <<Emission(i, "receive_message", e.chatId),
         Emission(i, "receive_message", e.receiverId),
         Emission(i, "message_notification", e.receiverId)>>
  ELSE <<Emission(i, "user_status_change", "*")>>
MutNotificationBroadcast(i) ==
  LET e == published[i] IN
  IF e.type = "NOTIFICATION"
  THEN <<Emission(i, "notification", "*")>>
  ELSE <<>>
HandleRedisEvent(i) ==
  LET e == published[i] IN
  IF e.shape = "notObject"
  THEN <<>>  \* `event.type` throws inside the try block, caught at line 71
  ELSE
  CASE e.type = "USER_STATUS" -> <<Emission(i, "user_status_change", "*")>>
    [] e.type = "NEW_MESSAGE" ->
         IF e.shape = "noPayload"
         THEN <<>>  \* destructuring event.payload throws, caught at line 71
         ELSE <<Emission(i, "receive_message", e.chatId)>>
              \o (IF e.receiverId # NoUser /\ e.shape # "noMessage"
                  THEN <<Emission(i, "message_notification", e.receiverId)>>
                  ELSE <<>>)  \* no receiverId, or `message.sender` throws
    [] e.type = "NOTIFICATION" ->
         IF e.userId # NoUser THEN <<Emission(i, "notification", e.userId)>> ELSE <<>>
    [] OTHER -> <<>>

\* the subscription callback (socket.js:82-91): JSON.parse inside try/catch,
\* then handleRedisEvent; what the process does for envelope number i
MutParseUncaught(i) ==
  IF published[i].shape = "unparseable"
  THEN <<Emission(i, "uncaughtException", "*")>>
  ELSE HandleRedisEvent(i)
OnMessage(i) ==
  IF published[i].shape = "unparseable" THEN <<>> ELSE HandleRedisEvent(i)

\* position in its queue of the message the subscription callback of a process
\* gets next: messages are handed over one by one in arrival order, and the
\* callback runs to completion (socket.js:82-91 has no await)
MutNewestFirst(q) == Len(q)
NextEnvelope(q) == 1

\* redisSub.on("message") (socket.js:82-91)
Deliver(P) ==
  /\ chan[P] # <<>>
  /\ LET j == NextEnvelope(chan[P]) IN
     /\ emitted' = [emitted EXCEPT ![P] = @ \o OnMessage(chan[P][j])]
     /\ chan' = [chan EXCEPT ![P] = SubSeq(@, 1, j - 1) \o SubSeq(@, j + 1, Len(@))]
  /\ UNCHANGED <<conn, presence, published, pending, persisted, nextMsg, http, outcomes>>

\* POST /partnership-request, POST /:userId/payouts (part_007:333-346,
\* 515-528): the route handler, running in process P, emits "notification"
\* on getIO() to the personal room of an administrator.  The record keeps
\* the connections of that user the emission reached and those it did not.
InRoom(c, room) == conn[c].state = "open" /\ room \in conn[c].rooms
DirectNotify(P, userId) ==
  /\ Len(direct[P]) < MaxDirect
  /\ direct' = [direct EXCEPT ![P] = Append(@,
       [event |-> "notification", room |-> userId,
        reached |-> {c \in EmitReach(P) : InRoom(c, userId)},
        missed |-> {c \in Conns \ EmitReach(P) : InRoom(c, userId)}])]
  /\ UNCHANGED <<cacheCore, gwCore, joins, codeVars, bookingVars, searchVars, listings>>

\* texts on app_events_stream that this code base does not produce: the
\* callback gets every message of the channel, whoever published it
Malformed(type, shape, userId, chatId, receiverId) ==
  [Envelope(type, userId, "", chatId, receiverId, 0, "foreign") EXCEPT !.shape = shape]
ForeignEnvelopes ==
  {Malformed("", "unparseable", NoUser, NoChat, NoUser),
   Malformed("", "notObject", NoUser, NoChat, NoUser),
   Malformed("PING", "ok", NoUser, NoChat, NoUser),
   Malformed("USER_STATUS", "noPayload", NoUser, NoChat, NoUser),
   Malformed("NEW_MESSAGE", "noPayload", NoUser, NoChat, NoUser),
   Malformed("NOTIFICATION", "noPayload", NoUser, NoChat, NoUser),
   Malformed("NEW_MESSAGE", "noMessage", NoUser, "ch1", "u2"),
   Malformed("NEW_MESSAGE", "noMessage", NoUser, "ch1", NoUser),
   Envelope("NEW_MESSAGE", "u1", "", "ch1", "u2", 1, "foreign"),
   Envelope("USER_STATUS", "u1", "online", NoChat, NoUser, 0, "foreign")}

\* a message arrives on the channel from another publisher
BusMessage(e) ==
  /\ Len(published) < MaxEnvelopes
  /\ Publish(e)
  /\ UNCHANGED <<conn, presence, emitted, pending, persisted, nextMsg, http, outcomes>>

InitGateway ==
  /\ conn = [c \in Conns |-> NoConn]
  /\ presence = {}
  /\ published = <<>>
  /\ chan = [P \in Procs |-> <<>>]
  /\ emitted = [P \in Procs |-> <<>>]
  /\ pending = {}
  /\ persisted = <<>>
  /\ nextMsg = 1
  /\ http = {}
  /\ outcomes = {}

(***************************************************************************)
(* The modules around the cache and the gateway.                           *)
(***************************************************************************)
Callers == {"g1", "g2"}
NoGen == [pc |-> "idle", code |-> -1, ret |-> -1, created |-> FALSE]

InitApp ==
  /\ joins = {}
  /\ direct = [P \in Procs |-> <<>>]
  /\ codeKeys = {}
  /\ gen = [g \in Callers |-> NoGen]
  /\ bookings = <<>>
  /\ breq = {}
  /\ searchStore = {}
  /\ searches = <<>>
  /\ listings = {}

(***************************************************************************)
(* searchPerformers (controllers/search.js).  req.query is an object: a    *)
(* sequence of [name, value] pairs in the order the parser met the names;  *)
(* a value is a string (s) or a nested object (o, its pairs in order).     *)
(***************************************************************************)
StringValue(str) == [s |-> str, o |-> <<>>]
ObjectValue(pairs) == [s |-> "", o |-> pairs]
Param(name, value) == [name |-> name, value |-> value]

ParamPairs ==
  {Param("city", StringValue("Rome")), Param("category", StringValue("dj")),
   Param("x", ObjectValue(<<<<"a", "1">>, <<"b", "2">>>>)),
   Param("x", ObjectValue(<<<<"b", "2">>, <<"a", "1">>>>))}
QueryObjects ==
  {<<>>} \cup {<<a>> : a \in ParamPairs}
         \cup {qq \in {<<a, b>> : a \in ParamPairs, b \in ParamPairs} : qq[1].name # qq[2].name}

\* `Object.keys(queryParams).sort()` (search.js:11-12): the names in code
\* unit order
NameOrder == <<"category", "city", "x">>
ObjectKeys(q) == [i \in 1..Len(q) |-> q[i].name]
Sort(names) == SelectSeq(NameOrder, LAMBDA n : \E i \in DOMAIN names : names[i] = n)

\* `.reduce((acc, key) => { acc[key] = queryParams[key]; ... }, {})`
\* (search.js:13-16): the object rebuilt in the order of the given names
Lookup(q, name) == q[CHOOSE i \in DOMAIN q : q[i].name = name].value
Rebuild(q, names) == [i \in 1..Len(names) |-> Param(names[i], Lookup(q, names[i]))]
MutUnsorted(q) == q
SortedParams(q) == Rebuild(q, Sort(ObjectKeys(q)))

\* JSON.stringify of an object: its members in enumeration order
RECURSIVE StringifyPairs(_)
StringifyPairs(pairs) ==
  IF pairs = <<>> THEN <<>>
  ELSE <<Head(pairs)[1], ":", Head(pairs)[2], ",">> \o StringifyPairs(Tail(pairs))
StringifyValue(v) == IF v.o = <<>> THEN <<v.s>> ELSE <<"{">> \o StringifyPairs(v.o) \o <<"}">>
RECURSIVE StringifyObject(_)
StringifyObject(q) ==
  IF q = <<>> THEN <<>>
  ELSE <<Head(q).name, ":">> \o StringifyValue(Head(q).value) \o <<",">>
       \o StringifyObject(Tail(q))

\* `crypto.createHash("md5").update(text).digest("hex")` (search.js:18-21):
\* a function of the text, taken to be free of collisions on these texts
Md5(text) == <<"md5">> \o text
QueryHash(q) == Md5(StringifyObject(SortedParams(q)))

\* GET search (search.js:5-207): the key is built, fetchCached looks it up,
\* on a miss performDbQuery runs and its array (truthy, also when empty) is
\* stored; a performDbQuery that throws stores nothing
SearchPerformers(q, ok) ==
  /\ Len(searches) < MaxSearches
  /\ LET key == QueryHash(q)
         hit == key \in searchStore IN
     /\ searchStore' = IF hit \/ ~ok THEN searchStore ELSE searchStore \cup {key}
     /\ searches' = Append(searches, [params |-> q, key |-> key, hit |-> hit,
                                      live |-> searchStore])
  /\ UNCHANGED <<cacheCore, gwCore, roomVars, codeVars, bookingVars, listings>>

\* the 300 seconds of a search entry run out (search.js:206)
SearchExpire(key) ==
  /\ key \in searchStore
  /\ searchStore' = searchStore \ {key}
  /\ UNCHANGED <<cacheCore, gwCore, roomVars, codeVars, bookingVars, listings, searches>>

(***************************************************************************)
(* generateUniqueCode (redis.js:119-162), one action per await.            *)
(***************************************************************************)
\* `Math.floor(Math.random() * 100)`, padded to two digits
Codes == 0..(NumCodes - 1)
\* `return null` of the catch block
NullCode == -2

\* the call: first pass of the loop, a code is drawn and redis.exists issued
GenStart(g, c) ==
  /\ gen[g].pc \in {"idle", "done"}
  /\ gen' = [gen EXCEPT ![g] = [NoGen EXCEPT !.pc = "exists", !.code = c]]
  /\ UNCHANGED <<cacheCore, gwCore, roomVars, codeKeys, bookingVars, searchVars, listings>>

\* `await redis.exists(...)` resolves: 0 -> leave the loop and issue SET, else
\* draw again and issue redis.exists; or it rejects -> catch, return null
GenExists(g, c) ==
  /\ gen[g].pc = "exists"
  /\ \E fault \in MayFault :
       /\ faultsLeft' = IF fault THEN faultsLeft - 1 ELSE faultsLeft
       /\ gen' = [gen EXCEPT ![g] =
                   IF fault THEN [@ EXCEPT !.pc = "done", !.ret = NullCode]
                   ELSE IF gen[g].code \notin codeKeys THEN [@ EXCEPT !.pc = "set"]
                   ELSE [@ EXCEPT !.code = c]]
  /\ UNCHANGED <<gwCore, roomVars, codeKeys, bookingVars, searchVars, listings>>
  /\ UNCHANGED <<keyspace, store, dbVer, writesLeft, pc, cur, prev, disturbed, hpc, hrun,
                 scanLeft, scanKeys, invSnap, invDisturbed, fence>>

\* `await redis.set(key, "active", "EX", ttl, "NX")` resolves, with "OK" or,
\* when the key exists, with null; the result is not looked at and the code
\* is returned; or it rejects -> catch, return null
GenSet(g) ==
  /\ gen[g].pc = "set"
  /\ \E fault \in MayFault :
       /\ faultsLeft' = IF fault THEN faultsLeft - 1 ELSE faultsLeft
       /\ codeKeys' = IF fault THEN codeKeys ELSE codeKeys \cup {gen[g].code}
       /\ gen' = [gen EXCEPT ![g] =
                   IF fault THEN [@ EXCEPT !.pc = "done", !.ret = NullCode]
                   ELSE [@ EXCEPT !.pc = "done", !.ret = gen[g].code,
                                  !.created = gen[g].code \notin codeKeys]]
  /\ UNCHANGED <<gwCore, roomVars, bookingVars, searchVars, listings>>
  /\ UNCHANGED <<keyspace, store, dbVer, writesLeft, pc, cur, prev, disturbed, hpc, hrun,
                 scanLeft, scanKeys, invSnap, invDisturbed, fence>>

\* the two days of a code key run out (redis.js:123, 147-153)
CodeExpire(c) ==
  /\ c \in codeKeys
  /\ codeKeys' = codeKeys \ {c}
  /\ UNCHANGED <<cacheCore, gwCore, roomVars, gen, bookingVars, searchVars, listings>>

(***************************************************************************)
(* Booking handlers (controllers/auth.js:77-254), one action per await.    *)
(***************************************************************************)
Performers == {"u1"}
Customer == "u2"
Dates == {"d1", "d2"}
BookingIds == 1..MaxBookings

\* the tables and the gateway state a booking step leaves alone
bookingFrame == <<cacheCore, gwCore, roomVars, codeVars, searchVars, listings>>

\* `prisma.booking.findFirst({where: {performerId, date, status: "CONFIRMED"}})`
ExistingBooking(performerId, date) ==
  \E i \in DOMAIN bookings :
    /\ bookings[i].performer = performerId
    /\ bookings[i].date = date
    /\ bookings[i].status = "CONFIRMED"

\* createBooking (auth.js:77-108): fields present, performer found, the
\* availability query is issued
CreateBooking(performerId, date) ==
  /\ Cardinality(breq) < MaxBookings
  /\ Len(bookings) + Cardinality({r \in breq : r.op = "create"}) < MaxBookings
  /\ breq' = breq \cup {[op |-> "create", id |-> 0, performer |-> performerId,
                          date |-> date, pc |-> "check"]}
  /\ UNCHANGED <<bookingFrame, bookings>>

\* the availability query resolves: 409 when a CONFIRMED booking exists, else
\* the transaction is issued (auth.js:102-113)
CreateCheckDone(r) ==
  /\ r \in breq /\ r.op = "create" /\ r.pc = "check"
  /\ breq' = IF ExistingBooking(r.performer, r.date)
             THEN breq \ {r}
             ELSE (breq \ {r}) \cup {[r EXCEPT !.pc = "insert"]}
  /\ UNCHANGED <<bookingFrame, bookings>>

\* the transaction commits: booking row with status PENDING (auth.js:113-140)
CreateInsertDone(r) ==
  /\ r \in breq /\ r.op = "create" /\ r.pc = "insert"
  /\ bookings' = Append(bookings, [performer |-> r.performer, date |-> r.date,
                                   status |-> "PENDING"])
  /\ breq' = (breq \ {r}) \cup {[r EXCEPT !.pc = "notify", !.id = Len(bookings) + 1]}
  /\ UNCHANGED bookingFrame

\* acceptBooking / rejectBooking (auth.js:156-161, 207-212): findUnique issued
DecideBooking(op, requestId, performerId) ==
  /\ Cardinality(breq) < MaxBookings
  /\ breq' = breq \cup {[op |-> op, id |-> requestId, performer |-> performerId,
                          date |-> "", pc |-> "find"]}
  /\ UNCHANGED <<bookingFrame, bookings>>

\* findUnique resolves: 404 without the row, 403 for another performer's
\* row, else the status update is issued (auth.js:163-173, 214-223)
DecideFindDone(r) ==
  /\ r \in breq /\ r.op \in {"accept", "reject"} /\ r.pc = "find"
  /\ breq' = IF r.id \in DOMAIN bookings /\ bookings[r.id].performer = r.performer
             THEN (breq \ {r}) \cup {[r EXCEPT !.pc = "update"]}
             ELSE breq \ {r}
  /\ UNCHANGED <<bookingFrame, bookings>>

\* `prisma.booking.update({where: {id}, data: {status}})` commits
\* (auth.js:169-173, 219-223)
NewStatus(op) == IF op = "accept" THEN "CONFIRMED" ELSE "REJECTED"
DecideUpdateDone(r) ==
  /\ r \in breq /\ r.op \in {"accept", "reject"} /\ r.pc = "update"
  /\ bookings' = [bookings EXCEPT ![r.id].status = NewStatus(r.op)]
  /\ breq' = (breq \ {r}) \cup {[r EXCEPT !.pc = "notify"]}
  /\ UNCHANGED bookingFrame

\* the notification row is written and `await sendNotification(...)` runs: to
\* the performer for a new booking, to the customer for a decision
\* (auth.js:142-149, 179-196, 229-246); then the response
NotifyTarget(r) == IF r.op = "create" THEN r.performer ELSE Customer
BookingNotify(r) ==
  /\ r \in breq /\ r.pc = "notify"
  /\ breq' = breq \ {r}
  /\ SendNotification(NotifyTarget(r))
  /\ UNCHANGED <<roomVars, codeVars, searchVars, listings, bookings>>
  /\ UNCHANGED <<keyspace, store, dbVer, writesLeft, pc, cur, prev, disturbed, hpc, hrun,
                 scanLeft, scanKeys, invSnap, invDisturbed, fence>>

(***************************************************************************)
(* The listing handlers' parameters (user.js:153-184, 220-251).            *)
(***************************************************************************)
\* `parseInt(req.query.page) || 1`, `parseInt(req.query.limit) || 10`: raw 0
\* stands for an absent, non-numeric or zero parameter
ParseIntOr(raw, dflt) == IF raw = 0 THEN dflt ELSE raw
RawPages == {0, 1, 2}
RawLimits == {0, 10, 20}
SearchTexts == {<<>>, <<" ">>, <<"a", "b">>, <<"a", " ", "b">>}

\* `${kind}_p${page}_l${limit}_s${search.replace(/\s/g, "")}` under "users"
ListingKeyOf(kind, page, limit, search) ==
  CacheKey("users", <<kind, "_p", ToString(page), "_l", ToString(limit), "_s">>
                    \o StripWhitespace(search))
\* the query the closure runs: whereClause (role and, for a truthy search,
\* the `contains` filter on the raw text), skip and take
ListingQuery(kind, page, limit, search) ==
  [role |-> kind, contains |-> search, skip |-> (page - 1) * limit, take |-> limit]

\* GET /performers, GET /customers up to the call of fetchCached
ListingRequest(kind, rawPage, rawLimit, search) ==
  LET page == ParseIntOr(rawPage, 1)
      limit == ParseIntOr(rawLimit, 10) IN
  /\ Cardinality(listings) < MaxListings
  /\ listings' = listings \cup
       {[kind |-> kind, page |-> rawPage, limit |-> rawLimit, search |-> search,
         key |-> ListingKeyOf(kind, page, limit, search),
         query |-> ListingQuery(kind, page, limit, search)]}
  /\ UNCHANGED <<cacheCore, gwCore, roomVars, codeVars, bookingVars, searchVars>>

(***************************************************************************)
(* Specifications of the cache layer.                                      *)
(***************************************************************************)
vars == <<cacheVars, gwVars>>

InitCache(ks, faults, writes) ==
  /\ InitGateway
  /\ InitApp
  /\ keyspace = ks
  /\ writesLeft = writes
  /\ store = [k \in Keys |-> Absent]
  /\ dbVer = [ns \in Namespaces |-> 0]
  /\ faultsLeft = faults
  /\ pc = [p \in Readers |-> "idle"]
  /\ cur = [p \in Readers |-> NoCall]
  /\ prev = [p \in Readers |-> NoCall]
  /\ disturbed = [p \in Readers |-> TRUE]
  /\ hpc = "idle"
  /\ hrun = NoRun
  /\ scanLeft = {}
  /\ scanKeys = {}
  /\ invSnap = [k \in Keys |-> Absent]
  /\ invDisturbed = FALSE
  /\ fence = 0

\* keys the single caller of SpecFetch uses
FetchKeys == {CacheKey("users", ListingId("performers", "1")),
              CacheKey("search_performers", SearchId("h1"))}

\* one sequential caller, every kind of compute function, store faults
InitFetch == InitCache(FetchKeys, MaxFaults, FetchWrites)
NextFetch ==
  \/ \E k \in Keys, fn \in Fns : FetchStart("r1", k, fn, TRUE)
  \/ RedisGet("r1")
  \/ DbQuery("r1")
  \/ RedisSet("r1")
  \/ CatchFallback("r1")
  \/ \E k \in Keys : Expire(k)
  \/ \E k \in Keys : CorruptEntry(k)
  \/ \E ok \in BOOLEAN : WriteOnlyHandler("approveProfile", "performer", ok)
SpecFetch == InitFetch /\ [][NextFetch]_vars

\* concurrent listing readers against the moderation handler, no store fault
RaceKeys == PerformerKeys
InitRace == InitCache(RaceKeys, 0, MaxWrites)
NextRace ==
  \/ \E p \in Readers, k \in Keys : FetchStart(p, k, "listing", FALSE)
  \/ \E p \in Readers : RedisGet(p)
  \/ \E p \in Readers : DbQuery(p)
  \/ \E p \in Readers : RedisSet(p)
  \/ \E role \in Roles, valid \in BOOLEAN, found \in BOOLEAN : ModerationUpdate(role, valid, found)
  \/ InvScan
  \/ InvDel
  \/ ModerationRespond
SpecRace == InitRace /\ [][NextRace]_vars

\* invalidatePattern over the whole keyspace, one concurrent listing reader
InitInv == InitCache(Keys, 0, InvWrites)
NextInv ==
  \/ \E k \in Keys : FetchStart("r1", k, "listing", FALSE)
  \/ RedisGet("r1")
  \/ DbQuery("r1")
  \/ RedisSet("r1")
  \/ \E valid \in BOOLEAN, found \in BOOLEAN : ModerationUpdate("performer", valid, found)
  \/ InvScan
  \/ InvDel
  \/ ModerationRespond
SpecInv == InitInv /\ [][NextInv]_vars

\* both invalidation helpers against a cache store that may reject a command
SwallowKeys == PerformerKeys
InitSwallow == InitCache(SwallowKeys, MaxFaults, InvWrites)
NextSwallow ==
  \/ \E k \in Keys : FetchStart("r1", k, "listing", FALSE)
  \/ RedisGet("r1")
  \/ DbQuery("r1")
  \/ RedisSet("r1")
  \/ CatchFallback("r1")
  \/ \E valid \in BOOLEAN, found \in BOOLEAN : ModerationUpdate("performer", valid, found)
  \/ InvScan
  \/ InvDel
  \/ ModerationRespond
  \/ \E ks \in {{}, PerformerKeys} : InvalidateKeys(ks)
SpecSwallow == InitSwallow /\ [][NextSwallow]_vars

\* listing requests with and without search text, moderation updates
ListingKeys == {CacheKey("users", ListingId("performers", "1")),
                CacheKey("users", ListingId("customers", "1"))}
InitKeys == InitCache(ListingKeys, 0, InvWrites)
NextKeys ==
  \/ \E kind \in {"performers", "customers"}, search \in Searches :
       GetListing("r1", kind, "1", search)
  \/ RedisGet("r1")
  \/ DbQuery("r1")
  \/ RedisSet("r1")
  \/ \E k \in Keys : Expire(k)
  \/ \E valid \in BOOLEAN, found \in BOOLEAN : ModerationUpdate("performer", valid, found)
  \/ InvScan
  \/ InvDel
  \/ ModerationRespond
SpecKeys == InitKeys /\ [][NextKeys]_vars

\* every mutation handler, one listing reader
HandlerKeys == {CacheKey("users", ListingId("performers", "1")),
                CacheKey("users", ListingId("customers", "1")),
                CacheKey("search_performers", SearchId("h1"))}
InitHandlers == InitCache(HandlerKeys, 0, MaxWrites)
NextHandlers ==
  \/ \E k \in Keys : FetchStart("r1", k, "listing", FALSE)
  \/ RedisGet("r1")
  \/ DbQuery("r1")
  \/ RedisSet("r1")
  \/ \E h \in WriteOnlyHandlers, role \in Roles, ok \in BOOLEAN : WriteOnlyHandler(h, role, ok)
  \/ \E role \in Roles, valid \in BOOLEAN, found \in BOOLEAN : ModerationUpdate(role, valid, found)
  \/ InvScan
  \/ InvDel
  \/ ModerationRespond
SpecHandlers == InitHandlers /\ [][NextHandlers]_vars

(***************************************************************************)
(* Specifications of the gateway.                                          *)
(***************************************************************************)
InitIdleCache == InitCache({}, 0, 0)

\* connections, presence and status envelopes
NextPresence ==
  \/ \E c \in Conns, query \in Users \cup {NoUser}, auth \in Users \cup {NoUser} :
       Connect(c, HandshakeUserId(query, auth)) /\ UNCHANGED cacheVars
  \/ \E c \in Conns : SaddDone(c) /\ UNCHANGED cacheVars
  \/ \E c \in Conns : SmembersDone(c) /\ UNCHANGED cacheVars
  \/ \E c \in Conns : Disconnect(c) /\ UNCHANGED cacheVars
  \/ \E c \in Conns : SremDone(c) /\ UNCHANGED cacheVars
SpecPresence == InitIdleCache /\ [][NextPresence]_vars

\* messages of clients through persistence and the bus to the rooms
\* two clients on different processes; conversation ch1 has receiver u2,
\* conversation ch2 is sent without a receiverId
BusConns == {"c1", "c3"}
BusUser(c) == IF c = "c1" THEN "u1" ELSE "u2"
ChatReceiver(ch) == IF ch = "ch1" THEN "u2" ELSE NoUser
NextBus ==
  \/ \E c \in BusConns : Connect(c, BusUser(c)) /\ UNCHANGED cacheVars
  \/ \E c \in BusConns : SaddDone(c) /\ UNCHANGED cacheVars
  \/ \E c \in BusConns : SmembersDone(c) /\ UNCHANGED cacheVars
  \/ \E c \in BusConns : JoinChat(c, "ch1") /\ UNCHANGED cacheVars
  \/ \E c \in BusConns, ch \in Chats : SendMessage(c, ch, ChatReceiver(ch)) /\ UNCHANGED cacheVars
  \/ \E m \in pending, ok \in BOOLEAN : PersistDone(m, ok) /\ UNCHANGED cacheVars
  \/ \E P \in Procs : Deliver(P) /\ UNCHANGED cacheVars
SpecBus == InitIdleCache /\ [][NextBus]_vars

\* both send paths of a message, through persistence and the bus to the
\* subscription callbacks
NextSend ==
  \/ Connect("c1", "u1") /\ UNCHANGED cacheVars
  \/ SaddDone("c1") /\ UNCHANGED cacheVars
  \/ SmembersDone("c1") /\ UNCHANGED cacheVars
  \/ \E ch \in Chats : SendMessage("c1", ch, ChatReceiver(ch)) /\ UNCHANGED cacheVars
  \/ \E m \in pending, ok \in BOOLEAN : PersistDone(m, ok) /\ UNCHANGED cacheVars
  \/ \E u \in Users, ch \in Chats, hasContent \in BOOLEAN :
       HttpSendMessage(u, ch, hasContent) /\ UNCHANGED cacheVars
  \/ \E r \in http, ok \in BOOLEAN : HttpCreateDone(r, ok) /\ UNCHANGED cacheVars
  \/ \E r \in http, ok \in BOOLEAN : HttpUpdateDone(r, ok) /\ UNCHANGED cacheVars
  \/ \E r \in http : HttpPublishDone(r) /\ UNCHANGED cacheVars
  \/ \E P \in Procs : Deliver(P) /\ UNCHANGED cacheVars
SpecSend == InitIdleCache /\ [][NextSend]_vars

\* calls of searchPerformers with every query object
NextSearch ==
  \/ \E q \in QueryObjects, ok \in BOOLEAN : SearchPerformers(q, ok)
  \/ \E key \in searchStore : SearchExpire(key)
SpecSearch == InitIdleCache /\ [][NextSearch]_vars

\* concurrent calls of generateUniqueCode against a store that may reject
InitCodes == InitCache({}, MaxFaults, 0)
NextCodes ==
  \/ \E g \in Callers, c \in Codes : GenStart(g, c)
  \/ \E g \in Callers, c \in Codes : GenExists(g, c)
  \/ \E g \in Callers : GenSet(g)
  \/ \E c \in Codes : CodeExpire(c)
SpecCodes == InitCodes /\ [][NextCodes]_vars

\* a redraw that lands on a code not in use
GenDrawFree(g) == \E c \in Codes \ codeKeys : GenExists(g, c)
\* every await of a call resolves in time, and the random draw does not avoid
\* the free codes for ever; nothing makes a key expire while a call runs
FairCodes ==
  \A g \in Callers :
    /\ WF_vars(\E c \in Codes : GenExists(g, c))
    /\ WF_vars(GenSet(g))
    /\ SF_vars(GenDrawFree(g))
SpecCodesLive == InitCodes /\ [][NextCodes]_vars /\ FairCodes

\* booking handlers in any interleaving
NextBookings ==
  \/ \E pf \in Performers, d \in Dates : CreateBooking(pf, d)
  \/ \E r \in breq : CreateCheckDone(r)
  \/ \E r \in breq : CreateInsertDone(r)
  \/ \E op \in {"accept", "reject"}, id \in BookingIds, pf \in Users : DecideBooking(op, id, pf)
  \/ \E r \in breq : DecideFindDone(r)
  \/ \E r \in breq : DecideUpdateDone(r)
  \/ \E r \in breq : BookingNotify(r)
SpecBookings == InitIdleCache /\ [][NextBookings]_vars

\* the listing handlers' keys for every combination of parameters
NextListingKeys ==
  \E kind \in {"performers", "customers"}, rawPage \in RawPages, rawLimit \in RawLimits,
     search \in SearchTexts : ListingRequest(kind, rawPage, rawLimit, search)
SpecListingKeys == InitIdleCache /\ [][NextListingKeys]_vars

\* clients joining rooms while notifications travel over the bus
RoomConns == {"c1", "c3"}
NextRooms ==
  \/ \E c \in RoomConns : Connect(c, BusUser(c)) /\ UNCHANGED cacheVars
  \/ \E c \in RoomConns : SaddDone(c) /\ UNCHANGED cacheVars
  \/ \E c \in RoomConns : SmembersDone(c) /\ UNCHANGED cacheVars
  \/ \E c \in RoomConns, chatId \in JoinRooms : JoinChatEvent(c, chatId)
  \/ SendNotification("u2") /\ UNCHANGED cacheVars
  \/ \E P \in Procs : Deliver(P) /\ UNCHANGED cacheVars
SpecRooms == InitIdleCache /\ [][NextRooms]_vars

\* notifications raised by HTTP handlers: through sendNotification and the
\* bus, or on the handling process's own io instance
NextNotify ==
  \/ \E c \in RoomConns : Connect(c, BusUser(c)) /\ UNCHANGED cacheVars
  \/ \E c \in RoomConns : SaddDone(c) /\ UNCHANGED cacheVars
  \/ \E c \in RoomConns : SmembersDone(c) /\ UNCHANGED cacheVars
  \/ SendNotification("u2") /\ UNCHANGED cacheVars
  \/ \E P \in Procs : DirectNotify(P, "u2")
  \/ \E P \in Procs : Deliver(P) /\ UNCHANGED cacheVars
SpecNotify == InitIdleCache /\ [][NextNotify]_vars

\* the subscription callbacks against whatever arrives on the channel
NextEnvelopes ==
  \/ \E e \in ForeignEnvelopes : BusMessage(e) /\ UNCHANGED cacheVars
  \/ \E u \in Users \cup {NoUser} : SendNotification(u) /\ UNCHANGED cacheVars
  \/ \E P \in Procs : Deliver(P) /\ UNCHANGED cacheVars
SpecEnvelopes == InitIdleCache /\ [][NextEnvelopes]_vars

\* every publishing path with a bus that may reject a publish
storeVars == <<appVars, keyspace, store, dbVer, writesLeft, pc, cur, prev, disturbed, hpc, hrun,
               scanLeft, scanKeys, invSnap, invDisturbed, fence>>
InitPublish == InitCache({}, MaxFaults, 0)
NextPublish ==
  \/ Connect("c1", "u1") /\ UNCHANGED cacheVars
  \/ SaddDone("c1") /\ UNCHANGED storeVars
  \/ SmembersDone("c1") /\ UNCHANGED cacheVars
  \/ Disconnect("c1") /\ UNCHANGED cacheVars
  \/ SremDone("c1") /\ UNCHANGED storeVars
  \/ \E ch \in Chats : SendMessage("c1", ch, ChatReceiver(ch)) /\ UNCHANGED cacheVars
  \/ \E m \in pending, ok \in BOOLEAN : PersistDone(m, ok) /\ UNCHANGED storeVars
  \/ \E ch \in Chats, hasContent \in BOOLEAN :
       HttpSendMessage("u1", ch, hasContent) /\ UNCHANGED cacheVars
  \/ \E r \in http, ok \in BOOLEAN : HttpCreateDone(r, ok) /\ UNCHANGED cacheVars
  \/ \E r \in http, ok \in BOOLEAN : HttpUpdateDone(r, ok) /\ UNCHANGED cacheVars
  \/ \E r \in http : HttpPublishDone(r) /\ UNCHANGED storeVars
  \/ SendNotification("u1") /\ UNCHANGED storeVars
SpecPublish == InitPublish /\ [][NextPublish]_vars

(***************************************************************************)
(* Properties of fetchCached.                                              *)
(***************************************************************************)
\* caller p has completed a call that follows, on the same key, a call of p
\* that stored its result, with no expiry, deletion, overwrite or store
\* fault in between
SecondFetch(p) ==
  /\ pc[p] = "done"
  /\ prev[p].stored
  /\ prev[p].key = cur[p].key
  /\ cur[p].clean
  /\ ~cur[p].fault

\* a value as it comes back from the cache: Date objects are ISO strings
DatesAsStrings(v) == [v EXCEPT !.d = IF @ = "Date" THEN "iso" ELSE @]

\* C1 as stated: two sequential fetchCached calls on one key, with no
\* invalidation, expiry or store fault in between, invoke the compute
\* function once in total and the second returns the value the first returned.
C1_SecondFetchSameValue ==
  \A p \in Readers :
    SecondFetch(p) => /\ prev[p].calls + cur[p].calls = 1
                      /\ cur[p].ret = prev[p].ret

\* C1 amended: the compute function is invoked once in total and the second
\* call returns the first call's value after a JSON round trip, that is with
\* every Date object replaced by its ISO string.
C1_SecondFetchHits ==
  \A p \in Readers :
    SecondFetch(p) => /\ prev[p].calls + cur[p].calls = 1
                      /\ cur[p].hit
                      /\ cur[p].ret = DatesAsStrings(prev[p].ret)

C1_Witness ==
  \E p \in Readers : SecondFetch(p) /\ cur[p].hit /\ prev[p].ret.d = "Date"
                     /\ cur[p].fn = "listing"

\* C2: a call of fetchCached that met a cache-store fault (rejected GET or
\* SET, undeserializable cached text) and whose compute function does not
\* throw returns normally with a result of the compute function, and the
\* listing endpoint behind it answers 200.
C2_FallbackOnCacheFault ==
  \A p \in Readers :
    (pc[p] \in {"done", "threw"} /\ cur[p].fault /\ ~Throws(cur[p].fn)) =>
      /\ pc[p] = "done"
      /\ cur[p].calls >= 1
      /\ cur[p].ret = cur[p].computed
      /\ \E v \in 0..dbVer[NamespaceOf(cur[p].key)] :
           cur[p].ret = Compute(cur[p].fn, cur[p].key,
                                [ns \in Namespaces |-> v])
      /\ (cur[p].fn \in ListingFns => ListingResponse(pc[p], cur[p].ret) = 200)

C2_Witness ==
  \E p \in Readers : pc[p] = "done" /\ cur[p].fault /\ cur[p].calls = 2
                     /\ cur[p].fn = "listing" /\ ~store[cur[p].key].present

\* C3 as stated: a compute result is stored if and only if it is neither
\* null nor undefined (so 0, false and "" are stored as well).
C3_StoredIffNotNull ==
  \A p \in Readers :
    (pc[p] = "done" /\ ~cur[p].fault /\ ~cur[p].hit) =>
      (cur[p].stored <=> cur[p].computed.t \notin {"null", "undefined"})

(***************************************************************************)
(* Properties of invalidation.                                             *)
(***************************************************************************)
\* C6 as stated: a fetchCached call on a users:performers_p* key that begins
\* after the moderation update's invalidation has completed returns data at
\* least as new as that update's write.
C6_NoStaleReadAfterInvalidation ==
  \A p \in Readers :
    (pc[p] = "done" /\ cur[p].key \in PerformerKeys) => cur[p].ret.ver >= cur[p].minVer

\* keys of the cached queries a committed write of the run can change
AffectedKeys(run) == {k \in Keys : NamespaceOf(k) \in AffectedBy(run.role)}

\* C7 as stated: every handler that has answered after committing a write to
\* a user row has called an invalidation that covers every affected cache
\* key, and a handler whose write failed has called none.
C7_InvalidationCoverage ==
  hrun.status # 0 =>
    IF hrun.committed
    THEN \A k \in AffectedKeys(hrun) : \E pat \in hrun.calls : GlobMatch(pat, k)
    ELSE hrun.calls = {}

\* C8: when invalidatePattern("users:performers_p*") has returned after a run
\* with no store error and no concurrent store change, no users:performers_p*
\* key that existed at its start exists, and every users:customers_* and
\* search_performers:* key is as it was.
C8_PatternInvalidated ==
  (hpc = "respond" /\ ~hrun.fault /\ ~invDisturbed) =>
    /\ \A k \in PerformerKeys : ~store[k].present
    /\ \A k \in CustomerKeys \cup SearchKeys : store[k] = invSnap[k]

C8_Witness ==
  /\ hpc = "respond" /\ ~hrun.fault /\ ~invDisturbed
  /\ hrun.dels >= 2
  /\ \A k \in Keys : invSnap[k].present
  /\ \A k \in CustomerKeys \cup SearchKeys : store[k].present

(***************************************************************************)
(* Properties of the gateway.                                              *)
(***************************************************************************)
\* no connection or disconnect handler is waiting for a Redis round trip
Settled == \A c \in Conns : conn[c].hpc \in {"none", "ready"} /\ conn[c].dpc # "srem"
\* every disconnect so far reached the disconnect listener
AllDisconnectsHandled == \A c \in Conns : conn[c].state = "closed" => conn[c].dpc = "done"
Live(u) == \E c \in Conns : conn[c].state = "open" /\ conn[c].user = u

\* C4 as stated, taken where no round trip is in flight and every disconnect
\* was handled: a user is in the presence set if and only if a live accepted
\* connection of that user exists (so with two connections of one user, one
\* disconnect leaves the user present).
C4_PresenceReflectsLive ==
  (Settled /\ AllDisconnectsHandled) => \A u \in Users : (u \in presence <=> Live(u))

OfflinePublished(c) ==
  Cardinality({i \in DOMAIN published :
                 /\ published[i].type = "USER_STATUS"
                 /\ published[i].status = "offline"
                 /\ published[i].src = c})

\* C5 as stated, in the form a finite run decides: once an accepted connection
\* is disconnected and neither its connection handler nor a disconnect
\* listener is still running, its user was removed from the presence set by
\* the disconnect listener and one offline STATUS envelope was published.
C5_DisconnectCleanup ==
  \A c \in Conns :
    (conn[c].state = "closed" /\ conn[c].hpc = "ready" /\ conn[c].dpc # "srem") =>
      (conn[c].dpc = "done" /\ OfflinePublished(c) = 1)

\* envelopes the subscription callback of process P has handled
Handled(P) == DOMAIN published \ {chan[P][j] : j \in DOMAIN chan[P]}
EmissionsFor(P, i) == SelectSeq(emitted[P], LAMBDA em : em.eid = i)
\* copies of an event for envelope i that reach connection c when it is in the room
Copies(c, i, event, room) ==
  Cardinality({x \in {<<P, j>> : P \in Procs, j \in 1..(3 * Len(published))} :
                 /\ x[2] \in DOMAIN emitted[x[1]]
                 /\ emitted[x[1]][x[2]] = Emission(i, event, room)
                 /\ c \in EmitReach(x[1])})

\* C9: for every MESSAGE envelope a process has handled it made exactly one
\* receive_message emission, to the conversation room, and exactly one
\* message_notification emission, to the receiver's room (none without a
\* receiver), and nothing else; once every process has handled the envelope,
\* exactly one of these emissions of each kind reaches any given socket.
C9_MessageFanOut ==
  \A i \in DOMAIN published :
    LET e == published[i] IN
    e.type = "NEW_MESSAGE" =>
      /\ \A P \in Procs :
           EmissionsFor(P, i) =
             IF i \in Handled(P)
             THEN <<Emission(i, "receive_message", e.chatId)>>
                  \o (IF e.receiverId = NoUser THEN <<>>
                      ELSE <<Emission(i, "message_notification", e.receiverId)>>)
             ELSE <<>>
      /\ (\A P \in Procs : i \in Handled(P)) =>
           \A c \in Conns :
             /\ Copies(c, i, "receive_message", e.chatId) = 1
             /\ \A room \in (Chats \cup Users) \ {e.chatId} :
                  Copies(c, i, "receive_message", room) = 0
             /\ Copies(c, i, "message_notification", e.receiverId) =
                  (IF e.receiverId = NoUser THEN 0 ELSE 1)

C9_Witness ==
  \E i \in DOMAIN published :
    /\ published[i].type = "NEW_MESSAGE"
    /\ published[i].chatId = "ch1"
    /\ published[i].receiverId = "u2"
    /\ \A P \in Procs : i \in Handled(P)
    /\ \A c \in BusConns : conn[c].state = "open" /\ "ch1" \in conn[c].rooms
    /\ conn["c3"].user = "u2"

\* C10: on every process the receive_message emissions into one conversation
\* room appear in the order in which their envelopes were published.
C10_ConversationOrder ==
  \A P \in Procs : \A j, k \in DOMAIN emitted[P] :
    (/\ j < k
     /\ emitted[P][j].event = "receive_message"
     /\ emitted[P][k].event = "receive_message"
     /\ emitted[P][j].room = emitted[P][k].room) =>
      emitted[P][j].eid < emitted[P][k].eid

C10_Witness ==
  \A P \in Procs : \E j, k \in DOMAIN emitted[P] :
    /\ j < k
    /\ emitted[P][j].event = "receive_message"
    /\ emitted[P][k].event = "receive_message"
    /\ emitted[P][j].room = emitted[P][k].room
    /\ emitted[P][k].eid > emitted[P][j].eid + 1
    /\ published[emitted[P][j].eid].src # published[emitted[P][k].eid].src

(***************************************************************************)
(* Properties of the send paths.                                           *)
(***************************************************************************)
SendOps == {"send_message", "sendMessage"}
MessageEnvelopes(n) ==
  {i \in DOMAIN published : published[i].type = "NEW_MESSAGE" /\ published[i].msg = n}
PersistedMsgs == {persisted[j] : j \in DOMAIN persisted}

\* C11 as stated: every finished operation whose publish failed (send_message
\* of a socket, connect, disconnect, sendNotification, HTTP sendMessage)
\* reported success to its caller, and its persistence write is in place.
C11_PublishFailureSwallowed ==
  \A o \in outcomes :
    o.pubFault => /\ o.ok
                  /\ o.persisted
                  /\ (o.op \in SendOps => o.n \in PersistedMsgs)

\* C12: a MESSAGE envelope on the bus carries a message record that was
\* persisted before; a send whose persistence failed has no MESSAGE envelope;
\* and every emission of a process belongs to an envelope its subscription
\* callback has handled, one receive_message per handled MESSAGE envelope
\* (no send handler emits to sockets itself).
C12_PersistThenPublish ==
  /\ \A i \in DOMAIN published :
       published[i].type = "NEW_MESSAGE" => published[i].msg \in PersistedMsgs
  /\ \A o \in outcomes :
       (o.op \in SendOps /\ ~o.persisted) => MessageEnvelopes(o.n) = {}
  /\ \A P \in Procs :
       /\ \A j \in DOMAIN emitted[P] : emitted[P][j].eid \in Handled(P)
       /\ Len(SelectSeq(emitted[P], LAMBDA em : em.event = "receive_message"))
            = Cardinality({i \in Handled(P) : published[i].type = "NEW_MESSAGE"})

C12_Witness ==
  /\ \E o \in outcomes : o.op = "send_message" /\ ~o.persisted
  /\ \E o \in outcomes : o.op = "sendMessage" /\ o.persisted /\ o.ok
                         /\ MessageEnvelopes(o.n) # {}
                         /\ \A P \in Procs : MessageEnvelopes(o.n) \subseteq Handled(P)

\* C13 as stated: every message record persisted by a finished send whose
\* publish the bus did not reject has exactly one MESSAGE envelope on the bus.
C13_ExactlyOncePerWrite ==
  \A o \in outcomes :
    (o.op \in SendOps /\ o.persisted /\ ~o.pubFault) =>
      Cardinality(MessageEnvelopes(o.n)) = 1

(***************************************************************************)
(* Properties of the connection protocol.                                  *)
(***************************************************************************)
Accepted(c) == conn[c].state \in {"open", "closed"}
StatusEnvelopes(userId, status) ==
  {i \in DOMAIN published : /\ published[i].type = "USER_STATUS"
                            /\ published[i].userId = userId
                            /\ published[i].status = status}

\* C14: a connection attempt without a user identifier is refused and leaves
\* nothing behind: no room, no handler step, no listener run, no envelope, and
\* the presence set holds only identifiers of accepted connections.
C14_RefusedLeavesNoState ==
  /\ \A c \in Conns :
       conn[c].user = NoUser =>
         /\ conn[c].state \in {"new", "refused"}
         /\ conn[c].rooms = {} /\ conn[c].list = {}
         /\ conn[c].hpc = "none" /\ conn[c].dpc = "none"
         /\ \A i \in DOMAIN published : published[i].src # c
         /\ \A o \in outcomes : o.who # c
  /\ presence \subseteq {conn[c].user : c \in {x \in Conns : Accepted(x)}}
  /\ StatusEnvelopes(NoUser, "online") = {}

C14_Witness ==
  /\ \E c \in Conns : conn[c].state = "refused"
  /\ \E c \in Conns : conn[c].state = "open" /\ conn[c].hpc = "ready"
  /\ presence # {}

KnownTypes == {"USER_STATUS", "NEW_MESSAGE", "NOTIFICATION"}
WellFormed(e) == e.shape = "ok" /\ e.type \in KnownTypes

\* what the gateway is to emit for a well-formed envelope (spec section 4.4)
NormalEmissions(i) ==
  LET e == published[i] IN
  IF e.type = "USER_STATUS" THEN <<Emission(i, "user_status_change", "*")>>
  ELSE IF e.type = "NEW_MESSAGE"
  THEN <<Emission(i, "receive_message", e.chatId)>>
       \o (IF e.receiverId = NoUser THEN <<>>
           ELSE <<Emission(i, "message_notification", e.receiverId)>>)
  ELSE IF e.userId = NoUser THEN <<>> ELSE <<Emission(i, "notification", e.userId)>>

\* C16: for a NOTIFICATION envelope a process has handled it made one
\* notification emission, to the room named by the payload's userId, or none
\* when the payload has no userId; notification emissions go to no other
\* room and are never a broadcast.
C16_NotificationRouting ==
  \A P \in Procs :
    /\ \A i \in Handled(P) :
         published[i].type = "NOTIFICATION" =>
           EmissionsFor(P, i) =
             IF published[i].userId = NoUser THEN <<>>
             ELSE <<Emission(i, "notification", published[i].userId)>>
    /\ \A j \in DOMAIN emitted[P] :
         emitted[P][j].event = "notification" =>
           /\ published[emitted[P][j].eid].type = "NOTIFICATION"
           /\ emitted[P][j].room = published[emitted[P][j].eid].userId
           /\ emitted[P][j].room \in Users

C16_Witness ==
  /\ \E i \in DOMAIN published :
       /\ published[i].type = "NOTIFICATION" /\ published[i].userId = "u1"
       /\ \A P \in Procs : i \in Handled(P)
  /\ \E i \in DOMAIN published :
       /\ published[i].type = "NOTIFICATION" /\ published[i].userId = NoUser
       /\ \A P \in Procs : i \in Handled(P)

NoUncaught(P) == \A j \in DOMAIN emitted[P] : emitted[P][j].event # "uncaughtException"

\* C17 as stated: a handled envelope that is not well-formed causes no
\* emission and no uncaught exception, and every well-formed envelope is
\* fanned out normally, whatever was handled before it.
C17_MalformedDropped ==
  \A P \in Procs :
    /\ NoUncaught(P)
    /\ \A i \in Handled(P) :
         EmissionsFor(P, i) = IF WellFormed(published[i]) THEN NormalEmissions(i) ELSE <<>>

\* what the callback emits for an envelope of a known type whose payload
\* lacks fields: a STATUS is broadcast as it is, a MESSAGE without its
\* message record still goes to the conversation room but produces no
\* message_notification, everything else is dropped
PartialEmissions(i) ==
  LET e == published[i] IN
  IF e.type = "USER_STATUS" /\ e.shape = "noPayload"
  THEN <<Emission(i, "user_status_change", "*")>>
  ELSE IF e.type = "NEW_MESSAGE" /\ e.shape = "noMessage"
  THEN <<Emission(i, "receive_message", e.chatId)>>
  ELSE <<>>

\* C17 amended: no envelope causes an uncaught exception; an undeserializable
\* message, a value without a known type and a MESSAGE or NOTIFICATION
\* without payload cause no emission; a STATUS without payload and a MESSAGE
\* without message record are emitted in part; and every well-formed
\* envelope is fanned out normally, whatever was handled before it.
C17_MalformedContained ==
  \A P \in Procs :
    /\ NoUncaught(P)
    /\ \A i \in Handled(P) :
         EmissionsFor(P, i) =
           IF WellFormed(published[i]) THEN NormalEmissions(i) ELSE PartialEmissions(i)

C17_Witness ==
  \E P \in Procs : \E i, j, k \in Handled(P) :
    /\ i < j /\ j < k
    /\ published[i].shape = "unparseable"
    /\ published[j].shape = "noMessage" /\ published[j].receiverId = "u2"
    /\ WellFormed(published[k]) /\ published[k].type = "NEW_MESSAGE"
    /\ EmissionsFor(P, k) = NormalEmissions(k)

(***************************************************************************)
(* Properties of the cache layer under store faults.                       *)
(***************************************************************************)
\* the call missed, its compute function returned, and the cache write failed
SetFailed(p) == pc[p] = "done" /\ cur[p].fault /\ cur[p].first # NoVal

\* C18 as stated: when fetchCached missed, invoked the compute function and
\* the cache write that followed failed, the value returned to the caller is
\* the value that invocation produced, whatever happened to the source of
\* truth in the meantime.
C18_MissResultReturnedAsIs ==
  \A p \in Readers : SetFailed(p) => cur[p].ret = cur[p].first

\* C19: a cache-store error inside invalidateKeys or invalidatePattern, on
\* the first or on a later SCAN or DEL, never reaches the caller: every call
\* of invalidateKeys returns normally, and a moderation update whose
\* invalidation failed has its write committed, goes on to respond and
\* responds 200.
C19_InvalidationFailureSwallowed ==
  /\ \A o \in outcomes : o.op = "invalidateKeys" => o.ok
  /\ (hrun.handler = "moderation" /\ hrun.fault) =>
       /\ hpc \in {"respond", "idle"}
       /\ hrun.committed
       /\ \A ns \in AffectedBy(hrun.role) : dbVer[ns] >= 1
       /\ hpc = "idle" => hrun.status = 200
  /\ (hrun.handler = "moderation" /\ hrun.committed /\ hpc = "idle") => hrun.status = 200

\* the moderation update answered 200 after its invalidation failed on a
\* later iteration: one listing page was deleted by the loop, another is
\* still cached
C19_Witness ==
  /\ hpc = "idle" /\ hrun.handler = "moderation" /\ hrun.fault /\ hrun.status = 200
  /\ cur["r1"].stored /\ ~store[cur["r1"].key].present
  /\ \E k \in PerformerKeys : store[k].present
  /\ outcomes = {}

(***************************************************************************)
(* Cache entries and the queries they belong to.                           *)
(***************************************************************************)
\* the logical query of the request a caller is serving
QueryOf(p) == Compute(cur[p].fn, cur[p].key, dbVer).q

\* C20 as stated: the value stored under a key is a result some compute
\* invocation produced earlier, and it is a result of the same logical query
\* as every fetch that reads it: a call that hit returns a result of its own
\* query, never one of a different query.
C20_CacheEntryValidity ==
  /\ \A k \in Keys :
       store[k].present =>
         \E fn \in ListingFns \cup SearchFns, v \in 0..dbVer[NamespaceOf(k)] :
           store[k].text = JSONstringify(Compute(fn, k, [ns \in Namespaces |-> v]))
  /\ \A p \in Readers :
       (pc[p] = "done" /\ cur[p].hit) => cur[p].ret.q = QueryOf(p)

(***************************************************************************)
(* Properties of the search key.                                           *)
(***************************************************************************)
\* the same name/value pairs, in whatever order of the names
SamePairs(q1, q2) == {q1[i] : i \in DOMAIN q1} = {q2[i] : i \in DOMAIN q2}

\* C21: two calls of searchPerformers whose query objects hold the same
\* name/value pairs in a different order of their keys compute the same
\* cache key, and the later one is a hit whenever the entry of the earlier
\* one was still in the store.
C21_SearchKeyNormalized ==
  \A i, j \in DOMAIN searches :
    (i < j /\ SamePairs(searches[i].params, searches[j].params)) =>
      /\ searches[i].key = searches[j].key
      /\ searches[i].key \in searches[j].live => searches[j].hit

C21_Witness ==
  \E i, j \in DOMAIN searches :
    /\ i < j /\ searches[j].hit /\ ~searches[i].hit
    /\ SamePairs(searches[i].params, searches[j].params)
    /\ searches[i].params # searches[j].params
    /\ \E n \in DOMAIN searches[i].params : searches[i].params[n].name = "x"

(***************************************************************************)
(* Properties of room membership.                                          *)
(***************************************************************************)
\* C22 as stated: every join_chat(chatId) with a non-empty chatId that a
\* client sent over an accepted connection made the connection a member of
\* room chatId (a connection leaves its rooms only by disconnecting), however
\* often the join was repeated.
C22_JoinChatJoins ==
  \A j \in joins :
    (j.chatId # "" /\ conn[j.conn].state = "open") => j.chatId \in conn[j.conn].rooms

\* C23 as stated: a connection is a member of the personal room of user u
\* only if it was authenticated as u, whatever join_chat events it sent.
C23_PersonalRoomIsolation ==
  \A c \in Conns : \A u \in Users : u \in conn[c].rooms => conn[c].user = u

(***************************************************************************)
(* Properties of single calls.                                             *)
(***************************************************************************)
\* C24 as stated: one call of fetchCached invokes its compute function at
\* most once, whether the cache read, the compute function or the cache
\* write fails or not.
C24_SingleComputeInvocation ==
  \A p \in Readers : cur[p].calls <= 1

\* C25 as stated: two listing requests whose parameters select different
\* database queries never get the same cache key.
C25_ListingKeysInjective ==
  \A a, b \in listings : a.query # b.query => a.key # b.key

(***************************************************************************)
(* Properties of the order of messages.                                    *)
(***************************************************************************)
\* envelopes of two messages one connection sent for one conversation
SameSender(i, j) ==
  /\ published[i].type = "NEW_MESSAGE" /\ published[j].type = "NEW_MESSAGE"
  /\ published[i].src = published[j].src /\ published[i].src \in Conns
  /\ published[i].chatId = published[j].chatId
PositionIn(seq, x) == CHOOSE k \in DOMAIN seq : seq[k] = x

\* C26 as stated: of two messages one client sent for the same conversation
\* over one connection, the one sent first is published first and persisted
\* first (message numbers are given in send order).
C26_SendOrderKept ==
  \A i, j \in DOMAIN published :
    (SameSender(i, j) /\ published[i].msg < published[j].msg) =>
      /\ i < j
      /\ PositionIn(persisted, published[i].msg) < PositionIn(persisted, published[j].msg)

(***************************************************************************)
(* Properties of notifications raised by HTTP handlers.                    *)
(***************************************************************************)
\* C27 as stated: a notification raised by an HTTP handler reaches the
\* personal room of its target on every gateway process: an emission a route
\* made itself missed no connection of the target user, and every process
\* that handled a NOTIFICATION envelope emitted it to the target's room.
C27_RouteNotificationsCrossProcess ==
  /\ \A P \in Procs : \A k \in DOMAIN direct[P] : direct[P][k].missed = {}
  /\ \A i \in DOMAIN published :
       (published[i].type = "NOTIFICATION" /\ published[i].userId # NoUser) =>
         \A Q \in Procs :
           i \in Handled(Q) =>
             EmissionsFor(Q, i) = <<Emission(i, "notification", published[i].userId)>>

(***************************************************************************)
(* Properties of generateUniqueCode.                                       *)
(***************************************************************************)
Returned(g) == gen[g].pc = "done" /\ gen[g].ret \in Codes

\* C28 as stated: a call that returned code c is the call that created key
\* code:c (its SET found no such key), so that no two calls hold the same
\* code on the strength of one key.
C28_UniqueCode ==
  \A g \in Callers : Returned(g) => gen[g].created

C30_NoDoubleBooking ==
  \A i, j \in DOMAIN bookings :
    (/\ i # j
     /\ bookings[i].status = "CONFIRMED" /\ bookings[j].status = "CONFIRMED"
     /\ bookings[i].performer = bookings[j].performer) =>
      bookings[i].date # bookings[j].date

====
